---- MODULE Spec2Model ----
(***************************************************************************)
(* Static Content Master: the six-node content graph of main.py            *)
(* (create_graph) as it is executed by graph.invoke, and the Streamlit     *)
(* page function of streamlit_app.py (main) that validates the form, runs  *)
(* the graph and renders the result.                                       *)
(*                                                                         *)
(* Texts (positioning fields, prompts, model responses) are sequences of   *)
(* tokens; a header such as "## Seasonal Events" is one token.             *)
(*                                                                         *)
(* The graph is run the way a compiled StateGraph runs: in supersteps.  A  *)
(* node is scheduled for the next superstep when a node with an edge to it *)
(* ran in the current one; the nodes of one superstep all read the state   *)
(* as it was when the superstep began, run concurrently, and their updates *)
(* are applied together when all of them have returned.  The state keys    *)
(* carry no reducer (the Annotated metadata are strings), so an update     *)
(* replaces the value of its key.                                          *)
(***************************************************************************)
EXTENDS Integers, Sequences, FiniteSets, TLC

\* Number of distinct texts the model may answer with.
NumTexts == 2

\* Python's None, and a value that is not None.
None == [is_none |-> TRUE, value |-> << >>]
Some(v) == [is_none |-> FALSE, value |-> v]

\* No run state: a mapping without keys.
NoState == << >>

\* No prompt in flight.
NoPrompt == << >>

\* ------------------------------------------------------------------ texts

AllTexts ==
    << <<"b", "## Seasonal Events">>, << >>, <<"a">>, <<"c">>, <<"d">> >>

Texts == { AllTexts[i] : i \in 1..NumTexts }

\* What the user may type into a text area: nothing, or something.
FieldValues == { << >>, <<"v">> }

ApiKeys == { "", "gsk" }

\* sub in s, for Python strings
Contains(s, sub) ==
    \E i \in 0..(Len(s) - Len(sub)) : SubSeq(s, i + 1, i + Len(sub)) = sub

\* "\n".join(parts)
RECURSIVE Join(_)
Join(parts) ==
    IF parts = << >> THEN << >>
    ELSE IF Len(parts) = 1 THEN parts[1]
    ELSE parts[1] \o <<"\n">> \o Join(Tail(parts))

\* [msg["content"] for msg in msgs]
Contents(msgs) == [i \in 1..Len(msgs) |-> msgs[i].content]

Msg(text) == [role |-> "assistant", content |-> text]

\* ------------------------------------------------------------------ graph

START == "__start__"
END == "__end__"

Nodes == {"flagship", "flagship_reflection", "seasonal_event",
          "seasonal_content", "evergreen", "editing"}

PositioningKeys == {"core_value_provided", "target_audience", "persona",
                    "monetization"}

MessageKeys == {"flagship_messages", "flagship_reflection_messages",
                "seasonal_event_messages", "seasonal_content_messages",
                "evergreen_messages", "editing_messages"}

\* Mutant: evergreen returns its text under flagship's key.
OutputKeyShared(n) ==
    CASE n = "flagship" -> "flagship_messages"
      [] n = "flagship_reflection" -> "flagship_reflection_messages"
      [] n = "seasonal_event" -> "seasonal_event_messages"
      [] n = "seasonal_content" -> "seasonal_content_messages"
      [] n = "evergreen" -> "flagship_messages"
      [] n = "editing" -> "editing_messages"

\* The key a node's returned update carries.
OutputKey(n) ==
    CASE n = "flagship" -> "flagship_messages"
      [] n = "flagship_reflection" -> "flagship_reflection_messages"
      [] n = "seasonal_event" -> "seasonal_event_messages"
      [] n = "seasonal_content" -> "seasonal_content_messages"
      [] n = "evergreen" -> "evergreen_messages"
      [] n = "editing" -> "editing_messages"

\* Mutant: flagship_reflection is wired to START instead of to flagship.
EdgesReflectionFromStart ==
    { <<START, "flagship">>, <<START, "seasonal_event">>,
      <<START, "evergreen">>,
      <<START, "flagship_reflection">>,
      <<"flagship_reflection", "editing">>,
      <<"seasonal_event", "seasonal_content">>,
      <<"seasonal_content", "editing">>,
      <<"evergreen", "editing">>,
      <<"editing", END>> }

\* Mutant: the edges from the two refinement tasks to editing are missing.
EdgesEditingAfterEvergreenOnly ==
    { <<START, "flagship">>, <<START, "seasonal_event">>,
      <<START, "evergreen">>,
      <<"flagship", "flagship_reflection">>,
      <<"seasonal_event", "seasonal_content">>,
      <<"evergreen", "editing">>,
      <<"editing", END>> }

\* Mutant: editing is wired back to flagship_reflection instead of to END.
EdgesEditingLoop ==
    { <<START, "flagship">>, <<START, "seasonal_event">>,
      <<START, "evergreen">>,
      <<"flagship", "flagship_reflection">>,
      <<"flagship_reflection", "editing">>,
      <<"seasonal_event", "seasonal_content">>,
      <<"seasonal_content", "editing">>,
      <<"evergreen", "editing">>,
      <<"editing", "flagship_reflection">> }

\* The edges added by create_graph, one add_edge call each.
Edges ==
    { <<START, "flagship">>, <<START, "seasonal_event">>,
      <<START, "evergreen">>,
      <<"flagship", "flagship_reflection">>,
      <<"flagship_reflection", "editing">>,
      <<"seasonal_event", "seasonal_content">>,
      <<"seasonal_content", "editing">>,
      <<"evergreen", "editing">>,
      <<"editing", END>> }

\* The nodes scheduled for the superstep after the one in which `ran` ran:
\* every add_edge(a, b) makes b run after a, each edge on its own.
Triggered(ran) == { n \in Nodes : \E p \in ran : <<p, n>> \in Edges }

\* Mutant: editing reads the generators' entries instead of the refined ones.
ContentKeysUnrefined(n) ==
    CASE n = "flagship_reflection" -> <<"flagship_messages">>
      [] n = "seasonal_content" -> <<"seasonal_event_messages">>
      [] n = "editing" -> <<"flagship_messages",
                            "seasonal_event_messages",
                            "evergreen_messages">>
      [] OTHER -> << >>

\* The message keys a node function reads from the state it is given.
ContentKeys(n) ==
    CASE n = "flagship_reflection" -> <<"flagship_messages">>
      [] n = "seasonal_content" -> <<"seasonal_event_messages">>
      [] n = "editing" -> <<"flagship_reflection_messages",
                            "seasonal_content_messages",
                            "evergreen_messages">>
      [] OTHER -> << >>

TemplateOf(n) ==
    CASE n = "flagship" -> "FLAGSHIP_PROMPT"
      [] n = "flagship_reflection" -> "FLAGSHIP_REFLECTION_PROMPT"
      [] n = "seasonal_event" -> "SEASONAL_PROMPT"
      [] n = "seasonal_content" -> "SEASONAL_CONTENT_PROMPT"
      [] n = "evergreen" -> "EVERGREEN_PROMPT"
      [] n = "editing" -> "Edit_PROMPT"

\* TEMPLATE.format(**kwargs): the template's text with each argument
\* substituted in its place.
RECURSIVE Format(_, _)
Format(template, args) ==
    IF args = << >> THEN <<template>>
    ELSE Format(template, SubSeq(args, 1, Len(args) - 1))
            \o <<"{">> \o args[Len(args)] \o <<"}">>

\* state.get(key, []) joined by "\n", for each key the node reads.
ContentArgs(n, st) ==
    [i \in 1..Len(ContentKeys(n)) |-> Join(Contents(st[ContentKeys(n)[i]]))]

\* The prompt a node function builds from the state it is given.
PromptOf(n, st) ==
    Format(TemplateOf(n),
           << st["core_value_provided"], st["target_audience"],
              st["persona"], st["monetization"] >> \o ContentArgs(n, st))

\* The update a node function returns for the model's response.
NodeUpdate(n, text) == [key |-> OutputKey(n), value |-> << Msg(text) >>]

\* The update of a node as the run holds it until the superstep is applied.
TaskWrite(n, text) ==
    [node |-> n, key |-> NodeUpdate(n, text).key,
     value |-> NodeUpdate(n, text).value]

\* Mutant: the key is declared with an appending reducer.
ChannelUpdateAppend(old, new) == old \o new

\* A state key without a reducer keeps the last value written to it.
ChannelUpdate(old, new) == new

RECURSIVE ApplyWrites(_, _)
ApplyWrites(st, ws) ==
    IF ws = {} THEN st
    ELSE LET w == CHOOSE x \in ws : TRUE
         IN ApplyWrites([st EXCEPT ![w.key] = ChannelUpdate(@, w.value)],
                        ws \ {w})

\* ------------------------------------------------------------------ page

\* Mutant: any() instead of all().
AnyFilled(f) ==
    \/ f.core_value # << >>
    \/ f.target_audience # << >>
    \/ f.persona # << >>
    \/ f.monetization # << >>

\* all([core_value, target_audience, persona, monetization])
AllFilled(f) ==
    /\ f.core_value # << >>
    /\ f.target_audience # << >>
    /\ f.persona # << >>
    /\ f.monetization # << >>

create_initial_state(input) ==
    [k \in MessageKeys \cup PositioningKeys |->
        CASE k = "core_value_provided" -> input.core_value
          [] k = "target_audience" -> input.target_audience
          [] k = "persona" -> input.persona
          [] k = "monetization" -> input.monetization
          [] OTHER -> << >>]

HeaderOf(k) ==
    CASE k = "flagship_messages" -> "## Flagship Content Ideas"
      [] k = "flagship_reflection_messages" -> "## Top Flagship Content Analysis"
      [] k = "seasonal_event_messages" -> "## Seasonal Events"
      [] k = "seasonal_content_messages" -> "## Seasonal Content Ideas"
      [] k = "evergreen_messages" -> "## Evergreen Content Ideas"
      [] k = "editing_messages" -> "## Content Strategy Summary"

\* Mutant: the evergreen block is placed before the seasonal blocks.
SectionOrderEvergreenFirst ==
    << "flagship_messages", "flagship_reflection_messages",
       "evergreen_messages", "seasonal_event_messages",
       "seasonal_content_messages", "editing_messages" >>

\* The order of the blocks that append to all_messages.
SectionOrder ==
    << "flagship_messages", "flagship_reflection_messages",
       "seasonal_event_messages", "seasonal_content_messages",
       "evergreen_messages", "editing_messages" >>

\* Mutant: a section whose text is empty is left out.
RECURSIVE CollectFromSkipEmpty(_, _)
CollectFromSkipEmpty(final, i) ==
    IF i > Len(SectionOrder) THEN << >>
    ELSE (IF final[SectionOrder[i]] # << >>
             /\ final[SectionOrder[i]][1].content # << >>
          THEN << Msg(<<HeaderOf(SectionOrder[i])>>) >> \o final[SectionOrder[i]]
          ELSE << >>) \o CollectFromSkipEmpty(final, i + 1)

\* The all_messages list built from the final state.
RECURSIVE CollectFrom(_, _)
CollectFrom(final, i) ==
    IF i > Len(SectionOrder) THEN << >>
    ELSE (IF final[SectionOrder[i]] # << >>
          THEN << Msg(<<HeaderOf(SectionOrder[i])>>) >> \o final[SectionOrder[i]]
          ELSE << >>) \o CollectFrom(final, i + 1)

CollectMessages(final) == CollectFrom(final, 1)

AnyHeaderIn(headers, text) == \E h \in headers : Contains(text, <<h>>)

RECURSIVE Extract(_, _, _, _)
Extract(messages, start_headers, end_headers, collecting) ==
    IF messages = << >> THEN << >>
    ELSE LET msg == Head(messages)
             rest == Tail(messages)
         IN IF msg.role # "assistant"
            THEN Extract(rest, start_headers, end_headers, collecting)
            ELSE IF AnyHeaderIn(start_headers, msg.content)
            THEN <<msg>> \o Extract(rest, start_headers, end_headers, TRUE)
            ELSE IF AnyHeaderIn(end_headers, msg.content)
            THEN Extract(rest, start_headers, end_headers, FALSE)
            ELSE IF collecting
            THEN <<msg>> \o Extract(rest, start_headers, end_headers, TRUE)
            ELSE Extract(rest, start_headers, end_headers, FALSE)

extract_section_content(messages, start_headers, end_headers) ==
    Extract(messages, start_headers, end_headers, FALSE)

\* What the five tabs show for a list of suggestions.
RenderTabs(s) ==
    [ All |-> s,
      Flagship |-> extract_section_content(s,
          {"## Flagship Content Ideas", "## Top Flagship Content Analysis"},
          {"## Seasonal Events", "## Seasonal Content Ideas",
           "## Evergreen Content Ideas", "## Content Strategy Summary"}),
      Seasonal |-> extract_section_content(s,
          {"## Seasonal Events", "## Seasonal Content Ideas"},
          {"## Evergreen Content Ideas", "## Content Strategy Summary"}),
      Evergreen |-> extract_section_content(s,
          {"## Evergreen Content Ideas"}, {"## Content Strategy Summary"}),
      Summary |-> extract_section_content(s,
          {"## Content Strategy Summary"}, {"## END"}) ]

\* Mutant: the except clause returns the sections written so far.
ExceptResultPartial(st) == Some(CollectMessages(st))

\* What generate_suggestions returns when an exception was caught.
ExceptResult(st) == None

\* ------------------------------------------------------------------ state

VARIABLES
    pc,           \* where main is: "start", "form", "generate", "invoke", "done"
    api_key,      \* the text of the API key input
    submitted,    \* whether the form's submit button was pressed
    fields,       \* the four text areas of the form
    input_data,   \* what create_input_form returned (NoFields for None)
    errors,       \* the st.error messages shown, in order
    graph,        \* whether create_graph has been called
    state,        \* the run state of the graph (NoState before a run)
    step,         \* the superstep of the run
    status,       \* per node: "idle", "pending", "running", "done", "failed"
    prompt,       \* per node: the prompt of its model call in this superstep
    writes,       \* the updates returned in this superstep, not yet applied
    oracle,       \* the model, as far as it has been asked: prompt -> text
    started,      \* per node: how many times its function was entered
    written,      \* per key: how many times an update was applied to it
    reads,        \* per node: the state keys its function has read
    final_state,  \* what graph.invoke returned
    suggestions,  \* what generate_suggestions returned
    tabs          \* what the tabs show

vars == << pc, api_key, submitted, fields, input_data, errors, graph, state,
           step, status, prompt, writes, oracle, started, written, reads,
           final_state, suggestions, tabs >>

pageVars == << api_key, submitted, fields, input_data >>
runVars == << graph, state, step, status, prompt, writes, oracle, started,
              written, reads, final_state >>

NoFields == [core_value |-> << >>, target_audience |-> << >>,
             persona |-> << >>, monetization |-> << >>]

Init ==
    /\ pc = "start"
    /\ api_key = ""
    /\ submitted = FALSE
    /\ fields = NoFields
    /\ input_data = NoFields
    /\ errors = << >>
    /\ graph = FALSE
    /\ state = NoState
    /\ step = 0
    /\ status = [n \in Nodes |-> "idle"]
    /\ prompt = [n \in Nodes |-> NoPrompt]
    /\ writes = {}
    /\ oracle = << >>
    /\ started = [n \in Nodes |-> 0]
    /\ written = [k \in MessageKeys |-> 0]
    /\ reads = [n \in Nodes |-> {}]
    /\ final_state = None
    /\ suggestions = None
    /\ tabs = None

\* Mutant: main goes on to the form whatever get_api_key returned.
GetApiKeyUnchecked ==
    /\ pc = "start"
    /\ \E k \in ApiKeys :
          /\ api_key' = k
          /\ pc' = "form"
    /\ UNCHANGED << submitted, fields, input_data, errors, suggestions, tabs >>
    /\ UNCHANGED runVars

\* main up to the API key check: without a key the page ends there.
GetApiKey ==
    /\ pc = "start"
    /\ \E k \in ApiKeys :
          /\ api_key' = k
          /\ pc' = IF k = "" THEN "done" ELSE "form"
    /\ UNCHANGED << submitted, fields, input_data, errors, suggestions, tabs >>
    /\ UNCHANGED runVars

\* create_input_form and main's test of what it returned.
CreateInputForm ==
    /\ pc = "form"
    /\ \E s \in BOOLEAN, cv \in FieldValues, ta \in FieldValues,
          pe \in FieldValues, mo \in FieldValues :
          LET f == [core_value |-> cv, target_audience |-> ta,
                    persona |-> pe, monetization |-> mo]
          IN /\ submitted' = s
             /\ fields' = f
             /\ IF ~s
                THEN /\ input_data' = NoFields
                     /\ errors' = errors
                     /\ pc' = "done"
                ELSE IF ~AllFilled(f)
                THEN /\ input_data' = NoFields
                     /\ errors' = Append(errors, "fill in all fields")
                     /\ pc' = "done"
                ELSE /\ input_data' = f
                     /\ errors' = errors
                     /\ pc' = "generate"
    /\ UNCHANGED << api_key, suggestions, tabs >>
    /\ UNCHANGED runVars

\* generate_suggestions up to graph.invoke: the graph is built, the initial
\* state is created and the nodes with an edge from START are scheduled.
StartRun ==
    /\ pc = "generate"
    /\ graph' = TRUE
    /\ state' = create_initial_state(input_data)
    /\ step' = 1
    /\ status' = [n \in Nodes |->
                    IF n \in Triggered({START}) THEN "pending" ELSE "idle"]
    /\ pc' = "invoke"
    /\ UNCHANGED << prompt, writes, oracle, started, written, reads,
                    final_state, errors, suggestions, tabs >>
    /\ UNCHANGED pageVars

Failed == \E n \in Nodes : status[n] = "failed"

\* A node function is entered: it reads the state and sends its prompt.
TaskStart(n) ==
    /\ pc = "invoke"
    /\ status[n] = "pending"
    /\ ~Failed
    /\ status' = [status EXCEPT ![n] = "running"]
    /\ prompt' = [prompt EXCEPT ![n] = PromptOf(n, state)]
    /\ started' = [started EXCEPT ![n] = @ + 1]
    /\ reads' = [reads EXCEPT ![n] = @ \cup PositioningKeys
                    \cup { ContentKeys(n)[i] : i \in 1..Len(ContentKeys(n)) }]
    /\ UNCHANGED << graph, state, step, writes, oracle, written, final_state,
                    pc, errors, suggestions, tabs >>
    /\ UNCHANGED pageVars

\* The model answers and the node function returns its update.
TaskReturn(n) ==
    /\ pc = "invoke"
    /\ status[n] = "running"
    /\ \E r \in Texts :
          /\ IF prompt[n] \in DOMAIN oracle
             THEN r = oracle[prompt[n]] /\ oracle' = oracle
             ELSE oracle' = (prompt[n] :> r) @@ oracle
          /\ writes' = IF Failed THEN writes
                       ELSE writes \cup { TaskWrite(n, r) }
    /\ status' = [status EXCEPT ![n] = "done"]
    /\ UNCHANGED << graph, state, step, prompt, started, written, reads,
                    final_state, pc, errors, suggestions, tabs >>
    /\ UNCHANGED pageVars

\* The model call raises.
TaskFail(n) ==
    /\ pc = "invoke"
    /\ status[n] = "running"
    /\ status' = [status EXCEPT ![n] = "failed"]
    /\ UNCHANGED << graph, state, step, prompt, writes, oracle, started,
                    written, reads, final_state, pc, errors, suggestions,
                    tabs >>
    /\ UNCHANGED pageVars

Ran == { n \in Nodes : status[n] = "done" }

\* All nodes of the superstep have returned: their updates are applied and
\* the nodes they have an edge to are scheduled.
NextStep ==
    /\ pc = "invoke"
    /\ ~Failed
    /\ Ran # {}
    /\ \A n \in Nodes : status[n] \in {"idle", "done"}
    /\ Triggered(Ran) # {}
    /\ state' = ApplyWrites(state, writes)
    /\ written' = [k \in MessageKeys |->
                     written[k] + Cardinality({ w \in writes : w.key = k })]
    /\ writes' = {}
    /\ step' = step + 1
    /\ status' = [n \in Nodes |->
                    IF n \in Triggered(Ran) THEN "pending" ELSE "idle"]
    /\ prompt' = [n \in Nodes |-> NoPrompt]
    /\ UNCHANGED << graph, oracle, started, reads, final_state, pc, errors,
                    suggestions, tabs >>
    /\ UNCHANGED pageVars

\* The last superstep: no node is scheduled any more, graph.invoke returns
\* the state, and generate_suggestions and main go on to the end of the page.
Finish ==
    /\ pc = "invoke"
    /\ ~Failed
    /\ Ran # {}
    /\ \A n \in Nodes : status[n] \in {"idle", "done"}
    /\ Triggered(Ran) = {}
    /\ LET final == ApplyWrites(state, writes)
           all_messages == CollectMessages(final)
       IN /\ state' = final
          /\ final_state' = Some(final)
          /\ suggestions' = Some(all_messages)
          /\ tabs' = IF all_messages # << >>
                     THEN Some(RenderTabs(all_messages)) ELSE None
    /\ written' = [k \in MessageKeys |->
                     written[k] + Cardinality({ w \in writes : w.key = k })]
    /\ writes' = {}
    /\ status' = [n \in Nodes |-> "idle"]
    /\ prompt' = [n \in Nodes |-> NoPrompt]
    /\ pc' = "done"
    /\ UNCHANGED << graph, step, oracle, started, reads, errors >>
    /\ UNCHANGED pageVars

\* A node raised: the nodes of the superstep not yet entered are cancelled,
\* those in flight are waited for, nothing of the superstep is applied, and
\* graph.invoke raises into the except clause of generate_suggestions.
InvokeRaises ==
    /\ pc = "invoke"
    /\ Failed
    /\ \A n \in Nodes : status[n] # "running"
    /\ errors' = Append(errors, "error while generating")
    /\ suggestions' = ExceptResult(state)
    /\ tabs' = IF ~ExceptResult(state).is_none
                  /\ ExceptResult(state).value # << >>
               THEN Some(RenderTabs(ExceptResult(state).value)) ELSE None
    /\ writes' = {}
    /\ pc' = "done"
    /\ UNCHANGED << graph, state, step, status, prompt, oracle, started,
                    written, reads, final_state >>
    /\ UNCHANGED pageVars

Next ==
    \/ GetApiKey
    \/ CreateInputForm
    \/ StartRun
    \/ \E n \in Nodes : TaskStart(n)
    \/ \E n \in Nodes : TaskReturn(n)
    \/ \E n \in Nodes : TaskFail(n)
    \/ NextStep
    \/ Finish
    \/ InvokeRaises

Spec == Init /\ [][Next]_vars

\* A step of graph.invoke: a scheduled node is entered, a model call ends,
\* a superstep is applied, or the call returns or raises.
RunStep ==
    \/ \E n \in Nodes : TaskStart(n) \/ TaskReturn(n) \/ TaskFail(n)
    \/ NextStep
    \/ Finish
    \/ InvokeRaises

\* The run keeps going: the executor runs every scheduled node, every model
\* call ends, and graph.invoke goes on when the nodes of a superstep are done.
FairSpec == Spec /\ WF_vars(RunStep)

\* ---------------------------------------------------------------- claims

EditingUpstream == {"flagship_reflection", "seasonal_content", "evergreen"}

\* C1: the editing task is entered only after flagship_reflection,
\* seasonal_content and evergreen have all completed and written their
\* entries; it never runs while one of them is pending or running.
C1_EditingAfterAllThree ==
    (started["editing"] > 0 /\ pc = "invoke") =>
        \A u \in EditingUpstream :
            /\ written[OutputKey(u)] > 0
            /\ (status["editing"] = "running"
                    => status[u] \notin {"pending", "running"})

\* C2: during one run each of the six tasks executes at most once and its
\* entry is written at most once, and when the run has returned each has
\* executed and written exactly once.
C2_EachTaskExactlyOnce ==
    /\ \A n \in Nodes : started[n] <= 1 /\ written[OutputKey(n)] <= 1
    /\ final_state # None =>
          \A n \in Nodes : started[n] = 1 /\ written[OutputKey(n)] = 1

\* C3: a run from create_initial_state with four non-empty positioning
\* fields in which no model call fails returns a state that holds the six
\* task-output entries of the task table, each with exactly one message.
C3_SixEntriesOfOneMessage ==
    final_state # None =>
        /\ \A f \in DOMAIN input_data : input_data[f] # << >>
        /\ DOMAIN final_state.value \ PositioningKeys = MessageKeys
        /\ \A k \in MessageKeys :
              /\ Len(final_state.value[k]) = 1
              /\ final_state.value[k][1].role = "assistant"
              /\ final_state.value[k][1].content \in Texts

C3_Witness ==
    /\ final_state # None
    /\ \A n \in Nodes : started[n] > 0

\* C4: every prompt the editing task sends to the model contains the output
\* texts of flagship_reflection, seasonal_content and evergreen, all three
\* present in the state when the prompt is built.
C4_EditingPromptHasAllThree ==
    status["editing"] = "running" =>
        \A u \in EditingUpstream :
            /\ state[OutputKey(u)] # << >>
            /\ Contains(prompt["editing"], Join(Contents(state[OutputKey(u)])))

\* C5: if a model call fails during a run, generate_suggestions returns None,
\* nothing is shown in the tabs, graph.invoke returns no state, and exactly
\* one error message is shown.
C5_FailureReturnsNothing ==
    Failed =>
        /\ suggestions = None
        /\ tabs = None
        /\ final_state = None
        /\ pc = "done" => errors = << "error while generating" >>

C5_Witness ==
    /\ Failed
    /\ pc = "done"
    /\ \E k \in MessageKeys : written[k] > 0 /\ state[k] # << >>

\* C6: flagship_reflection is entered only after flagship has written
\* flagship_messages, and seasonal_content only after seasonal_event has
\* written seasonal_event_messages, so the prompt of a refinement task
\* contains the text its generator produced.
C6_RefinementAfterGenerator ==
    \A pair \in { <<"flagship", "flagship_reflection">>,
                  <<"seasonal_event", "seasonal_content">> } :
        started[pair[2]] > 0 =>
            /\ written[OutputKey(pair[1])] = 1
            /\ Len(state[OutputKey(pair[1])]) = 1
            /\ status[pair[1]] \notin {"pending", "running"}
            /\ status[pair[2]] = "running" =>
                  /\ ContentArgs(pair[2], state)
                        = << state[OutputKey(pair[1])][1].content >>
                  /\ Contains(prompt[pair[2]],
                              state[OutputKey(pair[1])][1].content)

C6_Witness ==
    /\ status["flagship_reflection"] = "running"
    /\ status["seasonal_content"] = "running"
    /\ state["flagship_messages"][1].content # << >>
    /\ state["seasonal_event_messages"][1].content # << >>

\* C7: when the form is submitted with one of the four positioning fields
\* empty, an error is reported and no run happens: no graph is created, no
\* task is entered, no model call is made and no run state exists.
C7_EmptyFieldNoRun ==
    (submitted /\ \E f \in DOMAIN fields : fields[f] = << >>) =>
        /\ errors = << "fill in all fields" >>
        /\ input_data = NoFields
        /\ graph = FALSE
        /\ \A n \in Nodes : started[n] = 0 /\ status[n] = "idle"
        /\ oracle = << >>
        /\ state = NoState /\ final_state = None
        /\ suggestions = None /\ tabs = None

C7_Witness ==
    /\ submitted
    /\ \E f \in DOMAIN fields : fields[f] = << >>
    /\ \E f \in DOMAIN fields : fields[f] # << >>
    /\ pc = "done"

\* The model as a function of the prompt.
Model(p) == IF p \in DOMAIN oracle THEN oracle[p] ELSE <<"?">>

\* The six tasks run one at a time in the given order, each on the state the
\* earlier ones left.
RECURSIVE RunSequential(_, _)
RunSequential(order, st) ==
    IF order = << >> THEN st
    ELSE LET n == Head(order)
             w == NodeUpdate(n, Model(PromptOf(n, st)))
         IN RunSequential(Tail(order), [st EXCEPT ![w.key] = w.value])

\* The orders of the six tasks in which each comes after the tasks of the
\* task table it depends on.
DependsOn ==
    { <<"flagship", "flagship_reflection">>,
      <<"seasonal_event", "seasonal_content">>,
      <<"flagship_reflection", "editing">>,
      <<"seasonal_content", "editing">>,
      <<"evergreen", "editing">> }

RECURSIVE OrdersOf(_)
OrdersOf(S) ==
    IF S = {} THEN { << >> }
    ELSE UNION { { <<n>> \o o : o \in OrdersOf(S \ {n}) } :
                 n \in { m \in S : \A q \in S : <<q, m>> \notin DependsOn } }

TopoOrders == OrdersOf(Nodes)

\* C8: with the model a fixed function from prompt to text, the state a run
\* returns is the same under every interleaving of the tasks, and is the
\* state every sequential execution in dependency order produces.
C8_FinalStateOrderIndependent ==
    final_state # None =>
        \A o \in TopoOrders :
            final_state.value = RunSequential(o, create_initial_state(input_data))

C8_Witness ==
    /\ final_state # None
    /\ Cardinality(DOMAIN oracle) = 7
    /\ \E p, q \in DOMAIN oracle :
          /\ p[1] = "Edit_PROMPT" /\ q[1] = "Edit_PROMPT"
          /\ oracle[p] # oracle[q]

\* The output entries of the tasks a task depends on in the task table.
DeclaredUpstreamKeys(n) ==
    CASE n = "flagship_reflection" -> {"flagship_messages"}
      [] n = "seasonal_content" -> {"seasonal_event_messages"}
      [] n = "editing" -> {"flagship_reflection_messages",
                           "seasonal_content_messages", "evergreen_messages"}
      [] OTHER -> {}

\* C9: a task reads from the run state only the four positioning fields and
\* the output entries of its declared upstream tasks; editing never reads
\* flagship_messages or seasonal_event_messages.
C9_ReadsOnlyUpstream ==
    \A n \in Nodes :
        /\ reads[n] \subseteq PositioningKeys \cup DeclaredUpstreamKeys(n)
        /\ status[n] = "running" =>
              \A k \in MessageKeys \ DeclaredUpstreamKeys(n) :
                  \A t \in Texts \ {<< >>} :
                      prompt[n] = PromptOf(n, [state EXCEPT ![k] = << Msg(t) >>])

C9_Witness ==
    /\ reads["editing"] = PositioningKeys \cup DeclaredUpstreamKeys("editing")
    /\ reads["flagship_reflection"] = PositioningKeys \cup {"flagship_messages"}
    /\ state # NoState
    /\ state["flagship_messages"] # << >>
    /\ state["seasonal_event_messages"] # << >>
    /\ status["editing"] = "running"

\* C10: once editing's entry has been written the run is complete: no other
\* task is pending or running, and no task is entered and no entry is
\* written afterwards.
C10_CompleteOnceEditingWritten ==
    [][written["editing_messages"] > 0 =>
          /\ \A n \in Nodes \ {"editing"} :
                status[n] \notin {"pending", "running"}
          /\ started' = started
          /\ written' = written]_vars

\* The output entry the task table gives each task.
Produces(n) ==
    CASE n = "flagship" -> "flagship_messages"
      [] n = "seasonal_event" -> "seasonal_event_messages"
      [] n = "evergreen" -> "evergreen_messages"
      [] n = "flagship_reflection" -> "flagship_reflection_messages"
      [] n = "seasonal_content" -> "seasonal_content_messages"
      [] n = "editing" -> "editing_messages"

\* C11: each task's update carries only its own output key, no two tasks of
\* one superstep write the same key, the four positioning fields keep their
\* submitted values for the whole run, and an entry changes only by the
\* update of the task that produces it.
C11_OneWriterPerKey ==
    /\ [](/\ \A w \in writes : w.key = Produces(w.node)
          /\ \A w1, w2 \in writes : w1.node # w2.node => w1.key # w2.key
          /\ graph =>
                /\ state["core_value_provided"] = input_data.core_value
                /\ state["target_audience"] = input_data.target_audience
                /\ state["persona"] = input_data.persona
                /\ state["monetization"] = input_data.monetization
                /\ \A k \in MessageKeys : written[k] = 0 => state[k] = << >>)
    /\ [][graph =>
            /\ \A k \in PositioningKeys : state'[k] = state[k]
            /\ \A k \in MessageKeys :
                  state'[k] # state[k] =>
                      \E w \in writes :
                          /\ w.key = k
                          /\ Produces(w.node) = k
                          /\ state'[k] = w.value]_vars

C11_Witness ==
    /\ step = 2
    /\ Cardinality(writes) = 3
    /\ \A k \in PositioningKeys : state[k] # << >>

\* The header and the text of one task's section, as a tab is to show them.
SectionOf(final, k) == << Msg(<<HeaderOf(k)>>) >> \o final[k]

\* C12: for any texts returned by the model each category tab shows exactly
\* the sections of its own category: Flagship the flagship and flagship
\* reflection sections, Seasonal the seasonal event and seasonal content
\* sections, Evergreen the evergreen section, Summary the editing section.
C12_TabsShowOwnSections ==
    ~tabs.is_none =>
        LET final == final_state.value
        IN /\ tabs.value.Flagship =
                 SectionOf(final, "flagship_messages")
                    \o SectionOf(final, "flagship_reflection_messages")
           /\ tabs.value.Seasonal =
                 SectionOf(final, "seasonal_event_messages")
                    \o SectionOf(final, "seasonal_content_messages")
           /\ tabs.value.Evergreen = SectionOf(final, "evergreen_messages")
           /\ tabs.value.Summary = SectionOf(final, "editing_messages")

\* C13: for a completed run generate_suggestions returns the flat sequence
\* of (header, text) sections in the fixed order Flagship Content Ideas, Top
\* Flagship Content Analysis, Seasonal Events, Seasonal Content Ideas,
\* Evergreen Content Ideas, Content Strategy Summary, each header followed
\* by the output of the task it names.
C13_SectionsInFixedOrder ==
    ~final_state.is_none =>
        LET final == final_state.value
            text(k) == final[k][1]
        IN /\ ~suggestions.is_none
           /\ \A k \in MessageKeys : Len(final[k]) = 1
           /\ suggestions.value =
                << Msg(<<"## Flagship Content Ideas">>),
                   text("flagship_messages"),
                   Msg(<<"## Top Flagship Content Analysis">>),
                   text("flagship_reflection_messages"),
                   Msg(<<"## Seasonal Events">>),
                   text("seasonal_event_messages"),
                   Msg(<<"## Seasonal Content Ideas">>),
                   text("seasonal_content_messages"),
                   Msg(<<"## Evergreen Content Ideas">>),
                   text("evergreen_messages"),
                   Msg(<<"## Content Strategy Summary">>),
                   text("editing_messages") >>

C13_Witness ==
    /\ ~suggestions.is_none
    /\ Len(suggestions.value) = 12
    /\ suggestions.value[2].content # suggestions.value[6].content
    /\ suggestions.value[10].content # << >>

\* The tasks that depend, directly or through another task, on a task of the
\* task table.
Downstream(n) ==
    CASE n = "flagship" -> {"flagship_reflection", "editing"}
      [] n = "seasonal_event" -> {"seasonal_content", "editing"}
      [] n \in EditingUpstream -> {"editing"}
      [] OTHER -> {}

\* Once a model call has failed no task is entered and nothing is written.
C14_NothingAfterFailure ==
    [][Failed => started' = started /\ written' = written /\ state' = state]_vars

\* The failure of a model call ends in the except clause of the caller.
C14_FailureReachesCaller ==
    (Failed /\ pc = "done") =>
        final_state.is_none /\ errors = << "error while generating" >>

\* C14: when a task's model call fails the run aborts: the failed task is
\* not invoked again, no task downstream of the failed task is ever started,
\* no entry is written after the failure, and the failure reaches the caller
\* of graph.invoke.
C14_FailureAbortsRun ==
    /\ [](\A n \in Nodes :
             status[n] = "failed" => \A d \in Downstream(n) : started[d] = 0)
    /\ []C14_FailureReachesCaller
    /\ C14_NothingAfterFailure

\* The header the result gives the section of each output entry.
SectionHeader(k) ==
    CASE k = "flagship_messages" -> "## Flagship Content Ideas"
      [] k = "flagship_reflection_messages" -> "## Top Flagship Content Analysis"
      [] k = "seasonal_event_messages" -> "## Seasonal Events"
      [] k = "seasonal_content_messages" -> "## Seasonal Content Ideas"
      [] k = "evergreen_messages" -> "## Evergreen Content Ideas"
      [] k = "editing_messages" -> "## Content Strategy Summary"

\* C15: a model response whose text is empty is a valid completion: it is
\* stored as the task's entry, a downstream task that reads the entry gets
\* the empty text as its prompt argument, the run still returns all six
\* entries, and the section is still emitted with its header.
C15_EmptyResponseIsValid ==
    /\ \A w \in writes : w.value = << Msg(<< >>) >> => status[w.node] = "done"
    /\ graph =>
          \A k \in MessageKeys :
              (written[k] > 0 /\ state[k] = << Msg(<< >>) >>) =>
                  \A n \in Nodes :
                      (status[n] = "running" /\ k \in DeclaredUpstreamKeys(n)) =>
                          \E i \in 1..Len(ContentKeys(n)) :
                              /\ ContentKeys(n)[i] = k
                              /\ ContentArgs(n, state)[i] = << >>
                              /\ prompt[n] = PromptOf(n, state)
    /\ ~final_state.is_none =>
          \A k \in MessageKeys :
              final_state.value[k] = << Msg(<< >>) >> =>
                  /\ \A j \in MessageKeys : Len(final_state.value[j]) = 1
                  /\ ~suggestions.is_none
                  /\ \E i \in 1..(Len(suggestions.value) - 1) :
                        /\ suggestions.value[i] = Msg(<<SectionHeader(k)>>)
                        /\ suggestions.value[i + 1] = Msg(<< >>)

C15_Witness ==
    /\ ~final_state.is_none
    /\ \A k \in MessageKeys : final_state.value[k] = << Msg(<< >>) >>
    /\ Len(suggestions.value) = 12

\* The number of times a node function was entered, over the given nodes.
RECURSIVE Executions(_)
Executions(S) ==
    IF S = {} THEN 0
    ELSE LET n == CHOOSE x \in S : TRUE
         IN started[n] + Executions(S \ {n})

\* C16: if every model call returns, a run terminates: the graph reaches END
\* with editing_messages written, after a bounded number of task executions.
C16_RunTerminates ==
    /\ [](Executions(Nodes) <= Cardinality(Nodes) + 1)
    /\ graph ~> (Failed \/ (/\ pc = "done"
                            /\ ~final_state.is_none
                            /\ written["editing_messages"] > 0
                            /\ \A n \in Nodes : status[n] = "idle"))

C16_Witness ==
    /\ pc = "done"
    /\ ~final_state.is_none
    /\ Executions(Nodes) = Cardinality(Nodes) + 1
    /\ final_state.value["editing_messages"] # << >>

\* The page execution may start a run: a key was entered, the submit button
\* was pressed and none of the four fields is empty.
MayRun ==
    /\ api_key # ""
    /\ submitted
    /\ \A f \in DOMAIN fields : fields[f] # << >>

\* C17: a run (graph creation and any model call) starts only when, in the
\* same page execution, a non-empty API key was entered, the submit button
\* was pressed and all four positioning fields are non-empty; in every other
\* case main returns without executing any task.
C17_RunOnlyWhenAllGiven ==
    /\ (\/ graph
        \/ pc \in {"generate", "invoke"}
        \/ oracle # << >>
        \/ \E n \in Nodes : started[n] > 0 \/ status[n] # "idle") => MayRun
    /\ (pc = "done" /\ ~MayRun) =>
          /\ ~graph
          /\ state = NoState
          /\ \A n \in Nodes : started[n] = 0
          /\ final_state.is_none /\ suggestions.is_none /\ tabs.is_none

C17_WitnessNoKey ==
    /\ pc = "done"
    /\ api_key = ""
    /\ ~graph

C17_Witness ==
    /\ MayRun
    /\ graph
    /\ \E n \in Nodes : started[n] > 0

====
